---- MODULE Spec2Model ----
(***************************************************************************)
(* State-machine model of the Android JNI binding of libavif               *)
(* (android_jni/avifandroidjni/src/main/jni/libavif_jni.cc).               *)
(*                                                                         *)
(* Every JNI entry point is one action.  The calls an entry point makes    *)
(* are threaded through a "world" record W: the native decoders, the heap  *)
(* wrappers, the Java object's fields, the target bitmap's lock count and  *)
(* pixel content, and the trace of the calls made so far.  A helper that   *)
(* calls into the native library or the platform is a set-valued operator: *)
(* one element per outcome the callee can produce.                         *)
(***************************************************************************)
EXTENDS Integers, Sequences, FiniteSets, TLC

\* ---- bounds of the model -------------------------------------------------
MaxDecoders == 2      \* native decoders created in one run
MaxWrappers == 2      \* heap addresses for AvifDecoderWrapper objects
MaxFrames   == 2      \* largest imageCount of an encoded input
ImageDim    == 2      \* width and height of the images of the inputs
MaxThreads  == 1      \* largest thread count a caller passes
CpuCount    == 2      \* the CPU count the host reports

\* ---- program constants ---------------------------------------------------
NULL == 0

Formats == {"RGBA_8888", "RGB_565", "RGBA_F16", "A_8"}

\* The encoded inputs a caller passes, by what a successful parse finds in
\* them: imageCount frames of ImageDim x ImageDim pixels, frame i (counted
\* from 0) lasting i + 1 time units.
Files ==
  { [imageCount |-> n, width |-> ImageDim, height |-> ImageDim,
     durations |-> [i \in 1..n |-> i]] : n \in 1..MaxFrames }

\* The target bitmaps a caller passes: each side fits the images exactly or
\* is one pixel short.
Bitmaps ==
  [width : {ImageDim - 1, ImageDim}, height : {ImageDim - 1, ImageDim},
   format : Formats]

VARIABLES
  decoders,   \* native avifDecoder objects, by identity
  wrappers,   \* heap AvifDecoderWrapper objects, by address
  handles,    \* nonzero handles the Java caller holds and has not destroyed
  stale,      \* handle values the caller has passed to destroyDecoder
  thiz,       \* fields of the Java AvifDecoder object
  locks,      \* lock count of the target bitmap's pixels
  pixels,     \* content of the target bitmap's pixel buffer
  uaf,        \* a native call was made on a decoder that is not live
  undefined,  \* the caller has triggered undefined behaviour
  hist,       \* per heap address: call history of the session living there
  last        \* the JNI call that returned last

vars == <<decoders, wrappers, handles, stale, thiz, locks, pixels, uaf,
          undefined, hist, last>>

\* ---- native decoder objects (avif/avif.h) --------------------------------
NoDecoder ==
  [st |-> "unalloc", destroys |-> 0, imageIndex |-> -1, imageCount |-> 0,
   width |-> 0, height |-> 0, durations |-> <<>>]

HasFreshDecoder(decs) == \E d \in 1..MaxDecoders : decs[d].st = "unalloc"

FreshDecoder(decs) ==
  CHOOSE d \in 1..MaxDecoders :
    /\ decs[d].st = "unalloc"
    /\ \A e \in 1..(d - 1) : decs[e].st # "unalloc"

\* Record a call in the trace of the current JNI call.
Ev(W, e) == [W EXCEPT !.ev = Append(@, e)]

\* A call of the current JNI call has failed.
Fail(W, e) == [W EXCEPT !.fail = e]

\* A native call that takes decoder d: using a decoder that is not live is a
\* use after free.
OnDecoder(W, d, e) == [Ev(W, e) EXCEPT !.uaf = @ \/ W.decs[d].st # "live"]

avifDecoderCreate(W) ==
  LET d == FreshDecoder(W.decs)
      W1 == Ev(W, "avifDecoderCreate")
  IN  { [ptr |-> NULL, W |-> Fail(W1, "avifDecoderCreate")],
        [ptr |-> d,
         W |-> [W1 EXCEPT !.decs[d] = [NoDecoder EXCEPT !.st = "live"],
                          !.created = d]] }

avifDecoderDestroy(W, d) ==
  [OnDecoder(W, d, "avifDecoderDestroy") EXCEPT
     !.decs[d] = [NoDecoder EXCEPT !.st = "destroyed",
                                   !.destroys = W.decs[d].destroys + 1]]

avifDecoderSetIOMemory(W, d) ==
  LET W1 == OnDecoder(W, d, "avifDecoderSetIOMemory")
  IN  { [res |-> "OK", W |-> W1],
        [res |-> "IO_ERROR", W |-> Fail(W1, "avifDecoderSetIOMemory")] }

\* Parsing fails, or finds one of the encoded inputs in the buffer.
avifDecoderParse(W, d) ==
  LET W1 == OnDecoder(W, d, "avifDecoderParse")
  IN  { [res |-> "BMFF_PARSE_FAILED", W |-> Fail(W1, "avifDecoderParse")] } \cup
      { [res |-> "OK",
         W |-> [W1 EXCEPT !.decs[d].imageIndex = -1,
                          !.decs[d].imageCount = file.imageCount,
                          !.decs[d].width = file.width,
                          !.decs[d].height = file.height,
                          !.decs[d].durations = file.durations]] :
          file \in Files }

\* Decode-next advances the frame cursor by one; it fails at the end of the
\* sequence and may fail on any frame.
avifDecoderNextImage(W, d) ==
  LET W1 == OnDecoder(W, d, "avifDecoderNextImage")
      dec == W.decs[d]
  IN  { [res |-> "DECODE_FAILED", W |-> Fail(W1, "avifDecoderNextImage")] } \cup
      IF dec.imageIndex + 1 < dec.imageCount
        THEN { [res |-> "OK",
                W |-> [W1 EXCEPT !.decs[d].imageIndex = dec.imageIndex + 1]] }
        ELSE {}

\* Decode-nth sets the frame cursor to n; it fails when n is past the end and
\* may fail on any frame.
avifDecoderNthImage(W, d, n) ==
  LET W1 == OnDecoder(W, d, "avifDecoderNthImage")
      dec == W.decs[d]
  IN  { [res |-> "DECODE_FAILED", W |-> Fail(W1, "avifDecoderNthImage")] } \cup
      IF n < dec.imageCount
        THEN { [res |-> "OK", W |-> [W1 EXCEPT !.decs[d].imageIndex = n]] }
        ELSE {}

avifDecoderNthImageTiming(W, d, i) ==
  LET W1 == OnDecoder(W, d, "avifDecoderNthImageTiming")
  IN  { [res |-> "NO_IMAGES_REMAINING", duration |-> 0,
         W |-> Fail(W1, "avifDecoderNthImageTiming")] } \cup
      IF i < W.decs[d].imageCount
        THEN { [res |-> "OK", duration |-> W.decs[d].durations[i + 1],
                W |-> W1] }
        ELSE {}

\* The conversion writes the current frame into the locked pixels; a failed
\* conversion may leave a partial write behind.
avifImageYUVToRGB(W, d) ==
  LET W1 == OnDecoder(W, d, "avifImageYUVToRGB")
  IN  { [res |-> "OK",
         W |-> [W1 EXCEPT !.pixels = "frame"]],
        [res |-> "REFORMAT_FAILED", W |-> Fail(W1, "avifImageYUVToRGB")],
        [res |-> "REFORMAT_FAILED",
         W |-> [Fail(W1, "avifImageYUVToRGB") EXCEPT !.pixels = "partial"]] }

\* ---- libavif_jni.cc: helpers of the anonymous namespace ------------------

\* Mutant of Destructor: it calls avifDecoderDestroy without the null test.
Destructor_NoNullCheck(W, decoder) ==
  IF decoder # NULL
    THEN avifDecoderDestroy(W, decoder)
    ELSE Ev(W, "avifDecoderDestroy")

\* ~AvifDecoderWrapper(), applied to the wrapper's decoder field.
Destructor(W, decoder) ==
  IF decoder # NULL THEN avifDecoderDestroy(W, decoder) ELSE W

\* Mutant of CreateDecoderAndParse: when binding the input fails it resets
\* the wrapper's decoder field without destroying the decoder.
CreateDecoderAndParse_DropOnIoError(W, threads) ==
  UNION {
    IF c.ptr = NULL
      THEN { [ok |-> FALSE, decoder |-> NULL, W |-> c.W] }
      ELSE
        LET W1 == [c.W EXCEPT !.maxThreads = threads]
        IN  UNION {
              IF io.res # "OK"
                THEN { [ok |-> FALSE, decoder |-> NULL, W |-> io.W] }
                ELSE { [ok |-> (p.res = "OK"), decoder |-> c.ptr, W |-> p.W] :
                         p \in avifDecoderParse(io.W, c.ptr) }
              : io \in avifDecoderSetIOMemory(W1, c.ptr) }
    : c \in avifDecoderCreate(W) }

\* CreateDecoderAndParse: the results carry the wrapper's decoder field as the
\* function leaves it.
CreateDecoderAndParse(W, threads) ==
  UNION {
    IF c.ptr = NULL
      THEN { [ok |-> FALSE, decoder |-> NULL, W |-> c.W] }
      ELSE
        LET W1 == [c.W EXCEPT !.maxThreads = threads]
        IN  UNION {
              IF io.res # "OK"
                THEN { [ok |-> FALSE, decoder |-> c.ptr, W |-> io.W] }
                ELSE { [ok |-> (p.res = "OK"), decoder |-> c.ptr, W |-> p.W] :
                         p \in avifDecoderParse(io.W, c.ptr) }
              : io \in avifDecoderSetIOMemory(W1, c.ptr) }
    : c \in avifDecoderCreate(W) }

\* Mutant of BitmapTooSmall: both sides must be too small.
BitmapTooSmall_And(bitmap_info, image) ==
  bitmap_info.width < image.width /\ bitmap_info.height < image.height

\* The bitmap is not large enough to store the decoded image.
BitmapTooSmall(bitmap_info, image) ==
  bitmap_info.width < image.width \/ bitmap_info.height < image.height

FormatSupported(format) ==
  ~ (format # "RGBA_8888" /\ format # "RGB_565" /\ format # "RGBA_F16")

\* Mutant of ConvertLocked: it returns a failed conversion's result before it
\* unlocks the pixels.
ConvertLocked_NoUnlockOnError(W, decoder) ==
  { IF c.res # "OK"
      THEN [res |-> c.res, W |-> Ev(c.W, "LOGE:convert")]
      ELSE [res |-> "OK",
            W |-> [Ev(c.W, "AndroidBitmap_unlockPixels") EXCEPT
                     !.locks = @ - 1]]
    : c \in avifImageYUVToRGB(W, decoder) }

\* AvifImageToBitmap from the point where the pixels are locked (lines
\* 111-134): convert, unlock, then report the conversion's result.
ConvertLocked(W, decoder) ==
  { LET U == [Ev(c.W, "AndroidBitmap_unlockPixels") EXCEPT !.locks = @ - 1]
    IN  IF c.res # "OK"
          THEN [res |-> c.res, W |-> Ev(U, "LOGE:convert")]
          ELSE [res |-> "OK", W |-> U]
    : c \in avifImageYUVToRGB(W, decoder) }

\* AvifImageToBitmap once AndroidBitmap_getInfo has filled in bitmap_info
\* (lines 88-134).
ValidateAndConvert(W, decoder, bitmap_info) ==
  LET image == [width |-> W.decs[decoder].width,
                height |-> W.decs[decoder].height]
      I == [W EXCEPT !.info = bitmap_info, !.img = image]
  IN  IF BitmapTooSmall(bitmap_info, image)
        THEN { [res |-> "UNKNOWN_ERROR",
                W |-> Fail(Ev(I, "LOGE:not_large_enough"), "too_small")] }
      ELSE IF ~ FormatSupported(bitmap_info.format)
        THEN { [res |-> "NOT_IMPLEMENTED",
                W |-> Fail(Ev(I, "LOGE:format_not_supported"), "format")] }
      ELSE
        LET L == Ev(I, "AndroidBitmap_lockPixels")
        IN  { [res |-> "UNKNOWN_ERROR",
               W |-> Fail(Ev(L, "LOGE:lock"), "AndroidBitmap_lockPixels")] } \cup
            ConvertLocked([L EXCEPT !.locks = @ + 1], decoder)

\* AndroidBitmap_getInfo fails, or reports the properties of the target bitmap
\* the caller passed; AndroidBitmap_lockPixels succeeds or fails.
AvifImageToBitmap(W, decoder) ==
  LET G == Ev(W, "AndroidBitmap_getInfo")
  IN  { [res |-> "UNKNOWN_ERROR",
         W |-> Fail(Ev(G, "LOGE:getInfo"), "AndroidBitmap_getInfo")] } \cup
      UNION { ValidateAndConvert(G, decoder, bitmap_info) :
                bitmap_info \in Bitmaps }

\* Mutant of DecodeNextImage: a failed decode destroys the decoder.
DecodeNextImage_DestroyOnError(W, decoder) ==
  UNION { IF r.res # "OK"
            THEN { [res |-> r.res,
                    W |-> Destructor(Ev(r.W, "LOGE:decode"), decoder)] }
            ELSE AvifImageToBitmap(r.W, decoder)
          : r \in avifDecoderNextImage(W, decoder) }

DecodeNextImage(W, decoder) ==
  UNION { IF r.res # "OK"
            THEN { [res |-> r.res, W |-> Ev(r.W, "LOGE:decode")] }
            ELSE AvifImageToBitmap(r.W, decoder)
          : r \in avifDecoderNextImage(W, decoder) }

DecodeNthImage(W, decoder, n) ==
  UNION { IF r.res # "OK"
            THEN { [res |-> r.res, W |-> Ev(r.W, "LOGE:decode")] }
            ELSE AvifImageToBitmap(r.W, decoder)
          : r \in avifDecoderNthImage(W, decoder, n) }

\* Mutant of getThreadCount: it passes threads on as it is.
getThreadCount_Identity(W, threads) == { [n |-> threads, W |-> W] }

\* getThreadCount: android_getCpuCount() reports the host's CPU count.
getThreadCount(W, threads) ==
  IF threads = 0
    THEN { [n |-> CpuCount,
            W |-> [Ev(W, "android_getCpuCount") EXCEPT !.cpu = CpuCount]] }
    ELSE { [n |-> threads, W |-> W] }

\* ---- heap wrappers ---------------------------------------------------------
NoWrapper == [st |-> "unalloc", decoder |-> NULL]

HasFreshWrapper(wraps) == \E p \in 1..MaxWrappers : wraps[p].st # "live"

\* new (std::nothrow) AvifDecoderWrapper(): an address that holds no live
\* wrapper.
FreshWrapper(wraps) ==
  CHOOSE p \in 1..MaxWrappers :
    /\ wraps[p].st # "live"
    /\ \A q \in 1..(p - 1) : wraps[q].st = "live"

\* delete p, for p null or pointing to a live wrapper: run the destructor and
\* free the memory, whose content stays behind.
Delete(W, p) ==
  IF p = NULL
    THEN W
    ELSE [Destructor(W, W.wraps[p].decoder) EXCEPT !.wraps[p].st = "freed"]

\* Mutant of UniquePtrDtor: a raw pointer, which frees nothing.
UniquePtrDtor_Leak(W, p) == W

\* std::unique_ptr<AvifDecoderWrapper> going out of scope while owning p.
UniquePtrDtor(W, p) == Delete(W, p)

\* Mutant of TimingQuery: a failed query skips the frame and the loop goes on.
TimingQuery_Continue(W, decoder, i, acc) ==
  { IF t.res # "OK"
      THEN [ok |-> TRUE, durations |-> acc, W |-> Fail(t.W, "-")]
      ELSE [ok |-> TRUE, durations |-> Append(acc, t.duration), W |-> t.W]
    : t \in avifDecoderNthImageTiming(W, decoder, i) }

\* One pass of the timing loop of createDecoder (lines 260-265), the durations
\* so far in acc: the query fails and createDecoder returns, or the frame's
\* duration is stored.
TimingQuery(W, decoder, i, acc) ==
  { IF t.res # "OK"
      THEN [ok |-> FALSE, durations |-> acc, W |-> t.W]
      ELSE [ok |-> TRUE, durations |-> Append(acc, t.duration), W |-> t.W]
    : t \in avifDecoderNthImageTiming(W, decoder, i) }

\* The timing loop of createDecoder from index i on.
RECURSIVE TimingLoop(_, _, _, _, _)
TimingLoop(W, decoder, i, frameCount, acc) ==
  IF ~ (i < frameCount)
    THEN { [ok |-> TRUE, durations |-> acc, W |-> W] }
    ELSE UNION {
           IF ~ q.ok
             THEN { q }
             ELSE TimingLoop(q.W, decoder, i + 1, frameCount, q.durations)
           : q \in TimingQuery(W, decoder, i, acc) }

\* Mutant of Release: get() in place of release(), so that the unique_ptr
\* deletes the wrapper when createDecoder returns.
Release_Get(W, p) == [ret |-> p, W |-> UniquePtrDtor(W, p)]

\* return reinterpret_cast<jlong>(decoder.release()): the unique_ptr gives up
\* the wrapper, which outlives the call.
Release(W, p) == [ret |-> p, W |-> W]

\* createDecoder after a successful CreateDecoderAndParse (lines 231-274).
PublishAndRelease(W, p) ==
  LET d == W.wraps[p].decoder
      frameCount == W.decs[d].imageCount
      W1 == Ev([W EXCEPT !.thiz.frameCount = frameCount], "new double[]")
  IN  { [ret |-> 0, W |-> UniquePtrDtor(Fail(W1, "new double[]"), p)] } \cup
      UNION {
        IF ~ t.ok
          THEN { [ret |-> 0, W |-> UniquePtrDtor(t.W, p)] }
          ELSE
            LET A == Ev(t.W, "NewDoubleArray")
            IN  { [ret |-> 0, W |-> UniquePtrDtor(Fail(A, "NewDoubleArray"), p)],
                  Release([A EXCEPT !.thiz.frameDurations = t.durations], p) }
        : t \in TimingLoop(W1, d, 0, frameCount, <<>>) }

\* The body of createDecoder: the value it returns and the world it leaves.
createDecoderBody(W, threads) ==
  IF threads < 0
    THEN { [ret |-> 0, W |-> Fail(Ev(W, "LOGE:threads"), "threads")] }
    ELSE
      LET p == FreshWrapper(W.wraps)
          N == Ev(W, "new AvifDecoderWrapper")
          W1 == [N EXCEPT !.wraps[p] = [st |-> "live", decoder |-> NULL],
                          !.wrapper = p]
      IN  { [ret |-> 0, W |-> Fail(N, "new AvifDecoderWrapper")] } \cup
          UNION {
            UNION {
              LET W2 == [r.W EXCEPT !.wraps[p].decoder = r.decoder]
              IN  IF ~ r.ok
                    THEN { [ret |-> 0, W |-> UniquePtrDtor(W2, p)] }
                    ELSE PublishAndRelease(W2, p)
              : r \in CreateDecoderAndParse(t.W, t.n) }
            : t \in getThreadCount(W1, threads) }

\* The body of decode: a wrapper on the stack, destroyed when it goes out of
\* scope.
decodeBody(W, threads) ==
  IF threads < 0
    THEN { [ret |-> FALSE, W |-> Fail(Ev(W, "LOGE:threads"), "threads")] }
    ELSE UNION {
           UNION {
             IF ~ r.ok
               THEN { [ret |-> FALSE, W |-> Destructor(r.W, r.decoder)] }
               ELSE { [ret |-> (n.res = "OK"),
                       W |-> Destructor(n.W, r.decoder)] :
                        n \in DecodeNextImage(r.W, r.decoder) }
             : r \in CreateDecoderAndParse(t.W, t.n) }
           : t \in getThreadCount(W, threads) }

\* The body of getInfo.
getInfoBody(W) ==
  { [ret |-> r.ok, W |-> Destructor(r.W, r.decoder)] :
      r \in CreateDecoderAndParse(W, 1) }

\* Mutant of FrameIndexPlusOne: the zero-based index.
FrameIndexPlusOne_ZeroBased(dec) == dec.imageIndex

\* decoder->decoder->imageIndex + 1
FrameIndexPlusOne(dec) == dec.imageIndex + 1

\* ---- the state machine ---------------------------------------------------
\* The history of a session, kept for as long as it has made no nthFrame call:
\* how many nextFrame calls have succeeded (okNext), and how many have failed
\* after their native decode step had succeeded (lostNext).
NoImage == [width |-> 0, height |-> 0]
NoBitmap == [width |-> 0, height |-> 0, format |-> "-"]
NoHist == [okNext |-> 0, lostNext |-> 0, usedNth |-> FALSE]

\* The world a JNI call starts in.
World ==
  [decs |-> decoders, wraps |-> wrappers, thiz |-> thiz, uaf |-> uaf,
   locks |-> locks, pixels |-> pixels, ev |-> <<>>, created |-> NULL,
   wrapper |-> NULL, maxThreads |-> 0, cpu |-> 0, info |-> NoBitmap,
   img |-> NoImage, fail |-> "-"]

\* The world a JNI call leaves becomes the state.
Commit(W) ==
  /\ decoders' = W.decs
  /\ wrappers' = W.wraps
  /\ thiz' = W.thiz
  /\ uaf' = W.uaf
  /\ locks' = W.locks
  /\ pixels' = W.pixels

\* The record of a JNI call: its name, arguments and result, and what the call
\* did (the decoder and wrapper it created, the thread count it set, the CPU
\* count it was told, the bitmap info and image size it compared, the step
\* that failed, its trace).
Call(op, ok, val, res, threads, handle, W) ==
  [op |-> op, ok |-> ok, val |-> val, res |-> res, threads |-> threads,
   handle |-> handle, created |-> W.created, wrapper |-> W.wrapper,
   maxThreads |-> W.maxThreads, cpu |-> W.cpu, info |-> W.info,
   img |-> W.img, fail |-> W.fail, ev |-> W.ev]

Init ==
  /\ decoders = [d \in 1..MaxDecoders |-> NoDecoder]
  /\ wrappers = [p \in 1..MaxWrappers |-> NoWrapper]
  /\ handles = {}
  /\ stale = {}
  /\ thiz = [frameCount |-> 0, frameDurations |-> <<>>]
  /\ locks = 0
  /\ pixels = "initial"
  /\ uaf = FALSE
  /\ undefined = FALSE
  /\ hist = [p \in 1..MaxWrappers |-> NoHist]
  /\ last = Call("-", FALSE, 0, "-", 0, NULL, World)

getInfo ==
  /\ ~ undefined
  /\ HasFreshDecoder(decoders)
  /\ \E r \in getInfoBody(World) :
       /\ Commit(r.W)
       /\ last' = Call("getInfo", r.ret, 0, "-", 0, NULL, r.W)
  /\ UNCHANGED <<handles, stale, undefined, hist>>

decode ==
  /\ ~ undefined
  /\ HasFreshDecoder(decoders)
  /\ \E threads \in -1..MaxThreads :
       \E r \in decodeBody(World, threads) :
         /\ Commit(r.W)
         /\ last' = Call("decode", r.ret, 0, "-", threads, NULL, r.W)
  /\ UNCHANGED <<handles, stale, undefined, hist>>

createDecoder ==
  /\ ~ undefined
  /\ HasFreshDecoder(decoders)
  /\ HasFreshWrapper(wrappers)
  /\ \E threads \in -1..MaxThreads :
       \E r \in createDecoderBody(World, threads) :
         /\ Commit(r.W)
         /\ handles' = IF r.ret # 0 THEN handles \cup {r.ret} ELSE handles
         /\ hist' = IF r.ret # 0 THEN [hist EXCEPT ![r.ret] = NoHist] ELSE hist
         /\ last' = Call("createDecoder", r.ret # 0, r.ret, "-", threads,
                         NULL, r.W)
  /\ UNCHANGED <<stale, undefined>>

nextFrame ==
  /\ ~ undefined
  /\ \E jdecoder \in handles :
       \E r \in DecodeNextImage(World, wrappers[jdecoder].decoder) :
         /\ Commit(r.W)
         /\ hist' =
              IF hist[jdecoder].usedNth \/ r.W.fail = "avifDecoderNextImage"
                THEN hist
              ELSE IF r.res = "OK"
                THEN [hist EXCEPT ![jdecoder].okNext = @ + 1]
                ELSE [hist EXCEPT ![jdecoder].lostNext = @ + 1]
         /\ last' = Call("nextFrame", r.res = "OK", 0, r.res, 0, jdecoder, r.W)
  /\ UNCHANGED <<handles, stale, undefined>>

nthFrame ==
  /\ ~ undefined
  /\ \E jdecoder \in handles, n \in 0..MaxFrames :
       \E r \in DecodeNthImage(World, wrappers[jdecoder].decoder, n) :
         /\ Commit(r.W)
         /\ hist' = [hist EXCEPT ![jdecoder] =
                       [okNext |-> 0, lostNext |-> 0, usedNth |-> TRUE]]
         /\ last' = Call("nthFrame", r.res = "OK", n, r.res, 0, jdecoder, r.W)
  /\ UNCHANGED <<handles, stale, undefined>>

nextFrameIndex ==
  /\ ~ undefined
  /\ \E jdecoder \in handles :
       LET d == wrappers[jdecoder].decoder
       IN  /\ uaf' = (uaf \/ decoders[d].st # "live")
           /\ last' = Call("nextFrameIndex", TRUE,
                           FrameIndexPlusOne(decoders[d]), "-", 0, jdecoder,
                           World)
  /\ UNCHANGED <<decoders, wrappers, handles, stale, thiz, locks, pixels,
                 undefined, hist>>

\* destroyDecoder on a handle the caller holds, or on the null handle.
destroyDecoder ==
  /\ ~ undefined
  /\ \E jdecoder \in handles \cup {NULL} :
       LET W == Delete(World, jdecoder)
       IN  /\ Commit(W)
           /\ handles' = handles \ {jdecoder}
           /\ stale' = IF jdecoder # NULL THEN stale \cup {jdecoder} ELSE stale
           /\ last' = Call("destroyDecoder", TRUE, 0, "-", 0, jdecoder, W)
  /\ UNCHANGED <<undefined, hist>>

Next ==
  \/ getInfo
  \/ decode
  \/ createDecoder
  \/ nextFrame
  \/ nthFrame
  \/ nextFrameIndex
  \/ destroyDecoder

Spec == Init /\ [][Next]_vars

\* destroyDecoder on a handle the caller has already destroyed: delete of a
\* dangling pointer.  The destructor reads freed memory: it finds the stale
\* decoder pointer and destroys that decoder again, or finds null, or the
\* process aborts.  Nothing is modelled past that point.
destroyDecoderAgain ==
  /\ ~ undefined
  /\ \E jdecoder \in stale \ handles :
       \E found \in {wrappers[jdecoder].decoder, NULL}, abort \in BOOLEAN :
         LET W == IF abort THEN World ELSE Destructor(World, found)
         IN  /\ Commit(W)
             /\ last' = Call("destroyDecoder", ~ abort, 0,
                             IF abort THEN "abort" ELSE "-", 0, jdecoder, W)
  /\ undefined' = TRUE
  /\ UNCHANGED <<handles, stale, hist>>

NextMisuse ==
  \/ Next
  \/ destroyDecoderAgain

\* The callers of SpecMisuse may break the contract of destroyDecoder.
SpecMisuse == Init /\ [][NextMisuse]_vars

\* ---- properties ----------------------------------------------------------
Count(seq, e) == Cardinality({ i \in DOMAIN seq : seq[i] = e })

\* Where the first e of seq stands; 0 when there is none.
Pos(seq, e) ==
  IF Count(seq, e) = 0
    THEN 0
    ELSE CHOOSE i \in DOMAIN seq :
           seq[i] = e /\ \A j \in 1..(i - 1) : seq[j] # e

LiveDecoders == { d \in 1..MaxDecoders : decoders[d].st = "live" }

LiveWrappers == { p \in 1..MaxWrappers : wrappers[p].st = "live" }

\* The frame cursor of the session behind handle h.
Cursor(h) == decoders[wrappers[h].decoder].imageIndex

\* All of the state but the record of the last call.
program == <<decoders, wrappers, handles, stale, thiz, locks, pixels, uaf,
             undefined, hist>>

\* C1: a createDecoder call that fails, on whichever path, returns 0, and when
\* it returns the native decoder it created has been destroyed exactly once,
\* the wrapper it allocated is freed and no session is left that the caller
\* has no handle for.
C1_FailedConstructCleansUp ==
  last.op = "createDecoder" =>
    /\ (last.fail # "-") <=> (last.val = 0)
    /\ last.threads < 0 => last.val = 0
    /\ last.val = 0 =>
         /\ last.created # NULL =>
              /\ decoders[last.created].st = "destroyed"
              /\ decoders[last.created].destroys = 1
              /\ Count(last.ev, "avifDecoderDestroy") = 1
         /\ last.created = NULL => Count(last.ev, "avifDecoderDestroy") = 0
         /\ last.wrapper # NULL => wrappers[last.wrapper].st = "freed"
         /\ LiveWrappers \subseteq handles

\* createDecoder has failed in the timing query of the second frame.
C1_Witness ==
  /\ last.op = "createDecoder"
  /\ last.val = 0
  /\ last.fail = "avifDecoderNthImageTiming"
  /\ Count(last.ev, "avifDecoderNthImageTiming") = 2
  /\ last.created # NULL

\* C2: a decode or getInfo call, whatever its outcome, leaves the set of live
\* native decoders as it found it: the decoder it created, if any, has been
\* destroyed exactly once when it returns.
C2_StatelessCallsNeverLeak ==
  [][ last'.op \in {"decode", "getInfo"} =>
        /\ LiveDecoders' = LiveDecoders
        /\ last'.created # NULL =>
             /\ decoders'[last'.created].st = "destroyed"
             /\ decoders'[last'.created].destroys = 1 ]_vars

\* decode has failed in the conversion while a session was live.
C2_Witness ==
  /\ last.op = "decode"
  /\ last.fail = "avifImageYUVToRGB"
  /\ handles # {}
  /\ LiveDecoders # {}

\* C3: every handle the caller holds refers to a live wrapper that owns one
\* live native decoder of its own; the live decoders are exactly the ones the
\* held handles own, so a decoder is destroyed exactly once, when its handle is
\* destroyed; and no native call is ever made on a decoder that is not live.
C3_SessionLifecycle ==
  /\ \A h \in handles :
       /\ wrappers[h].st = "live"
       /\ wrappers[h].decoder # NULL
       /\ decoders[wrappers[h].decoder].st = "live"
  /\ \A h1, h2 \in handles :
       h1 # h2 => wrappers[h1].decoder # wrappers[h2].decoder
  /\ \A d \in 1..MaxDecoders :
       /\ decoders[d].destroys <= 1
       /\ (decoders[d].st = "destroyed") <=> (decoders[d].destroys = 1)
       /\ decoders[d].st = "live" =>
            \E h \in handles : wrappers[h].decoder = d
  /\ ~ uaf

\* Of two sessions open at once, one that has decoded a frame has been
\* destroyed and the other is still held.
C3_Witness ==
  /\ last.op = "destroyDecoder"
  /\ last.handle # NULL
  /\ Count(last.ev, "avifDecoderDestroy") = 1
  /\ hist[last.handle].okNext > 0
  /\ handles # {}

\* C4 as stated: destroying a null handle or a wrapper without a decoder makes
\* no native destroy call, and however often destroyDecoder is called on a
\* handle, its native decoder is released exactly once.
C4_DestroyIdempotent ==
  /\ (last.op = "destroyDecoder" /\ last.handle = NULL) => last.ev = <<>>
  /\ \A d \in 1..MaxDecoders : decoders[d].destroys <= 1

\* C4, amended: destroyDecoder on the null handle changes nothing and makes no
\* native call; destroying a wrapper whose decoder pointer is null makes no
\* native destroy call; the first destroyDecoder on a handle releases its
\* native decoder exactly once; undefined behaviour arises only from a
\* destroyDecoder on a handle that has been destroyed before.
C4_DestroyNullIsNoOp ==
  /\ [] /\ (last.op = "destroyDecoder" /\ last.handle = NULL) => last.ev = <<>>
        /\ (last.op \in {"getInfo", "decode", "createDecoder"}
              /\ last.created = NULL) =>
             Count(last.ev, "avifDecoderDestroy") = 0
        /\ (last.op = "destroyDecoder" /\ last.handle # NULL /\ ~ undefined) =>
             /\ Count(last.ev, "avifDecoderDestroy") = 1
             /\ wrappers[last.handle].st = "freed"
             /\ decoders[wrappers[last.handle].decoder].destroys = 1
        /\ undefined => (last.op = "destroyDecoder" /\ last.handle \in stale)
  /\ [][ (last'.op = "destroyDecoder" /\ last'.handle = NULL) =>
           UNCHANGED program ]_vars

\* destroyDecoder(0) has been called while a session was live at an address
\* that an earlier, destroyed session had used.
C4_Witness ==
  /\ last.op = "destroyDecoder"
  /\ last.handle = NULL
  /\ handles # {}
  /\ stale # {}

\* C5: when nextFrame or nthFrame returns a result other than OK, the handle
\* is still held and its wrapper and native decoder are live and undestroyed:
\* the call has made no native destroy call, and no call has ever run on a
\* decoder that is not live.
C5_FailedDecodeKeepsSession ==
  (last.op \in {"nextFrame", "nthFrame"} /\ last.res # "OK") =>
    /\ last.handle \in handles
    /\ wrappers[last.handle].st = "live"
    /\ decoders[wrappers[last.handle].decoder].st = "live"
    /\ decoders[wrappers[last.handle].decoder].destroys = 0
    /\ Count(last.ev, "avifDecoderDestroy") = 0
    /\ ~ uaf

\* nthFrame has failed in the conversion.
C5_Witness ==
  /\ last.op = "nthFrame"
  /\ last.res = "REFORMAT_FAILED"
  /\ last.fail = "avifImageYUVToRGB"

\* The calls that convert an image into the target bitmap.
Converting == {"decode", "nextFrame", "nthFrame"}

\* The last call has read the target's properties, and the target is smaller
\* than the image in width or in height.
TargetSmaller(c) ==
  /\ c.op \in Converting
  /\ c.info # NoBitmap
  /\ (c.info.width < c.img.width \/ c.info.height < c.img.height)

\* The last call has read the target's properties, and its pixel format is not
\* one of the three the conversion supports.
TargetUnsupported(c) ==
  /\ c.op \in Converting
  /\ c.info # NoBitmap
  /\ c.info.format \notin {"RGBA_8888", "RGB_565", "RGBA_F16"}

\* The call has neither locked nor unlocked the target, nor run the
\* conversion.
TargetUntouched(c) ==
  /\ Count(c.ev, "AndroidBitmap_lockPixels") = 0
  /\ Count(c.ev, "avifImageYUVToRGB") = 0
  /\ Count(c.ev, "AndroidBitmap_unlockPixels") = 0

\* C6: a conversion into a target that is smaller than the image fails as too
\* small (UNKNOWN_ERROR, logged as not large enough), a conversion into a
\* large enough target of an unsupported format fails as unsupported
\* (NOT_IMPLEMENTED), and in both cases, as for a target that is both, the
\* target is never locked, the conversion never runs and the pixels stay as
\* they were.
C6_RejectedTargetUntouched ==
  /\ [] /\ TargetSmaller(last) =>
             /\ ~ last.ok
             /\ last.fail = "too_small"
             /\ Count(last.ev, "LOGE:not_large_enough") = 1
             /\ last.op # "decode" => last.res = "UNKNOWN_ERROR"
             /\ TargetUntouched(last)
        /\ TargetUnsupported(last) =>
             /\ ~ last.ok
             /\ TargetUntouched(last)
        /\ (TargetUnsupported(last) /\ ~ TargetSmaller(last)) =>
             /\ last.fail = "format"
             /\ Count(last.ev, "LOGE:format_not_supported") = 1
             /\ last.op # "decode" => last.res = "NOT_IMPLEMENTED"
  /\ [][ (TargetSmaller(last') \/ TargetUnsupported(last')) =>
           (pixels' = pixels /\ locks' = locks) ]_vars

\* nextFrame has rejected a target that is wide enough but not high enough,
\* after an earlier call had written a frame into the target.
C6_Witness ==
  /\ last.op = "nextFrame"
  /\ last.info # NoBitmap
  /\ last.info.width >= last.img.width
  /\ last.info.height < last.img.height
  /\ last.info.format = "RGBA_8888"
  /\ pixels = "frame"

\* C7 as stated: on a session that has made only nextFrame calls,
\* nextFrameIndex returns the number of those calls that succeeded.
C7_IndexCountsSuccessfulCalls ==
  (last.op = "nextFrameIndex" /\ ~ hist[last.handle].usedNth) =>
    last.val = hist[last.handle].okNext

\* C7, amended: nextFrameIndex returns the frame cursor plus one and changes
\* nothing; the cursor of a new session is -1, so it returns 0; on a session
\* that has made only nextFrame calls it returns the number of those calls
\* whose native decode step succeeded, those that then failed in the
\* conversion included; right after a successful nthFrame(n) it returns n + 1.
C7_IndexIsCursorPlusOne ==
  /\ [] /\ last.op = "nextFrameIndex" =>
             /\ last.val = Cursor(last.handle) + 1
             /\ ~ hist[last.handle].usedNth =>
                  last.val = hist[last.handle].okNext
                               + hist[last.handle].lostNext
        /\ (last.op = "createDecoder" /\ last.val # 0) =>
             /\ Cursor(last.val) + 1 = 0
             /\ hist[last.val] = NoHist
        /\ (last.op = "nthFrame" /\ last.res = "OK") =>
             Cursor(last.handle) = last.val
  /\ [][ (last'.op = "nextFrameIndex" /\ last.op = "nthFrame"
            /\ last.res = "OK" /\ last'.handle = last.handle) =>
           last'.val = last.val + 1 ]_vars
  /\ [][ last'.op = "nextFrameIndex" => UNCHANGED program ]_vars

\* nextFrameIndex has returned 2 on a session with one successful nextFrame
\* call and one that failed after its native decode step.
C7_Witness ==
  /\ last.op = "nextFrameIndex"
  /\ last.val = 2
  /\ ~ hist[last.handle].usedNth
  /\ hist[last.handle].okNext = 1
  /\ hist[last.handle].lostNext = 1

\* C8: when createDecoder succeeds, the frameDurations it has published has
\* one entry per frame of the input, the i-th being the native timing duration
\* of frame i; when it fails, in a timing query or elsewhere, it returns 0 and
\* frameDurations is what it was before the call.
C8_DurationsAllOrNothing ==
  /\ [] /\ (last.op = "createDecoder" /\ last.val # 0) =>
             LET dec == decoders[wrappers[last.val].decoder]
             IN  /\ Len(thiz.frameDurations) = dec.imageCount
                 /\ thiz.frameCount = dec.imageCount
                 /\ Count(last.ev, "avifDecoderNthImageTiming")
                      = dec.imageCount
                 /\ \A i \in 1..dec.imageCount :
                      thiz.frameDurations[i] = dec.durations[i]
        /\ (last.op = "createDecoder"
              /\ last.fail = "avifDecoderNthImageTiming") => last.val = 0
  /\ [][ (last'.op = "createDecoder" /\ last'.val = 0) =>
           thiz'.frameDurations = thiz.frameDurations ]_vars

\* createDecoder has published the durations of a two-frame input.
C8_Witness ==
  /\ last.op = "createDecoder"
  /\ last.val # 0
  /\ thiz.frameDurations = <<1, 2>>

\* C9: decode and createDecoder with threads < 0 fail before they allocate a
\* wrapper or a native decoder; with threads = 0 the decoder's maxThreads is
\* set to the CPU count the host reports, which is not 0; with threads > 0 it
\* is set to threads; getInfo sets it to 1.
C9_ThreadCount ==
  /\ (last.op \in {"decode", "createDecoder"} /\ last.threads < 0) =>
       /\ ~ last.ok
       /\ last.val = 0
       /\ last.created = NULL
       /\ last.wrapper = NULL
       /\ last.ev = <<"LOGE:threads">>
  /\ (last.op \in {"decode", "createDecoder"} /\ last.created # NULL) =>
       /\ last.threads = 0 =>
            /\ Count(last.ev, "android_getCpuCount") = 1
            /\ last.maxThreads = last.cpu
            /\ last.maxThreads # 0
       /\ last.threads > 0 =>
            /\ Count(last.ev, "android_getCpuCount") = 0
            /\ last.maxThreads = last.threads
  /\ (last.op = "getInfo" /\ last.created # NULL) => last.maxThreads = 1

\* createDecoder, called with threads = 0, has created a session and has set
\* the host's CPU count, which no caller passes, as its thread count.
C9_Witness ==
  /\ last.op = "createDecoder"
  /\ last.threads = 0
  /\ last.val # 0
  /\ last.maxThreads = CpuCount
  /\ CpuCount > MaxThreads

\* C10: a converting call locks the target at most once, and only after the
\* native decode step has succeeded and the target has passed the size and
\* the format validation; a lock that succeeded is followed by the conversion
\* and then by exactly one unlock, whether the conversion succeeds or fails; a
\* call that took no lock makes no unlock; no call returns with the target
\* locked.
C10_LockBalanced ==
  /\ locks = 0
  /\ last.op \in Converting =>
       LET ev == last.ev
           locked == /\ Count(ev, "AndroidBitmap_lockPixels") = 1
                     /\ last.fail # "AndroidBitmap_lockPixels"
       IN  /\ Count(ev, "AndroidBitmap_lockPixels") <= 1
           /\ Count(ev, "AndroidBitmap_lockPixels") = 1 =>
                /\ last.fail \notin {"avifDecoderNextImage",
                                     "avifDecoderNthImage"}
                /\ Pos(ev, "avifDecoderNextImage")
                     + Pos(ev, "avifDecoderNthImage") > 0
                /\ Pos(ev, "avifDecoderNextImage")
                     + Pos(ev, "avifDecoderNthImage")
                     < Pos(ev, "AndroidBitmap_lockPixels")
                /\ last.info # NoBitmap
                /\ last.info.width >= last.img.width
                /\ last.info.height >= last.img.height
                /\ last.info.format \in {"RGBA_8888", "RGB_565", "RGBA_F16"}
           /\ locked =>
                /\ Count(ev, "avifImageYUVToRGB") = 1
                /\ Count(ev, "AndroidBitmap_unlockPixels") = 1
                /\ Pos(ev, "AndroidBitmap_lockPixels")
                     < Pos(ev, "avifImageYUVToRGB")
                /\ Pos(ev, "avifImageYUVToRGB")
                     < Pos(ev, "AndroidBitmap_unlockPixels")
           /\ ~ locked =>
                /\ Count(ev, "avifImageYUVToRGB") = 0
                /\ Count(ev, "AndroidBitmap_unlockPixels") = 0

\* decode has locked the target, failed in the conversion and unlocked it.
C10_Witness ==
  /\ last.op = "decode"
  /\ last.fail = "avifImageYUVToRGB"
  /\ Count(last.ev, "AndroidBitmap_unlockPixels") = 1
  /\ pixels = "partial"

====
